---------------------------- MODULE Spec2Model ----------------------------
(***************************************************************************)
(* Group resolution and labelling of voxel clusters, modelled from         *)
(* mlreco/iotools/parsers.py (parse_cluster3d_full and the parsers built   *)
(* on it).                                                                 *)
(*                                                                         *)
(* An event is a list of particle records (particles_v) and a parallel     *)
(* list of voxel clusters (cluster_event): cluster i belongs to particle   *)
(* i, and a declared group id g names the particle particles_v[g], so      *)
(* declared group ids are indices of the particle list.                    *)
(***************************************************************************)
EXTENDS Integers, Sequences, FiniteSets, TLC

(***************************************************************************)
(* Bounds of the model.                                                    *)
(***************************************************************************)
MaxParticles == 3
MaxTime == 1
MaxVoxels == 1
MaxCalls == 3

(***************************************************************************)
(* Program constants: the semantic shape enumeration (0 shower, 1 track,   *)
(* 2 michel, 3 delta, 4 low energy) and the muon PDG code.                 *)
(***************************************************************************)
ShapeShower == 0
ShapeLowE == 4
MuonPdg == 13

Shapes == 0..4

\* creation_process strings, as sequences of their words; the substring
\* tests of the code ('Inelastic' in process) look for one word.
Processes ==
    { <<"primary">>,
      <<"neutron", "Inelastic">>,
      <<"muMinus", "Capture", "AtRest">> }

\* parent_pdg_code values: an electron, a mu- and a mu+ parent.
PdgCodes == {11, MuonPdg, 0 - MuonPdg}

Times == 0..MaxTime

VARIABLES
    particles_v,    \* data[1].as_vector(): index -> particle record
    cluster_event,  \* data[0].as_vector(): index -> number of voxels
    group_ids,      \* the working array of (resolved) group ids
    new_group,      \* the fresh-id counter
    unique_gids,    \* np.unique(group_ids), evaluated once before the loop
    pos,            \* position of the loop in unique_gids (from 1)
    pc,             \* "resolve", "done" (parse_cluster3d_full returned),
                    \* "AssertionError", "ValueError" (it raised),
                    \* "labelled" (parse_cluster3d_full_extended returned),
                    \* "labelled2" (parse_cluster3d_full_extended2 returned)
                    \* "nu_only" (..._extended_nu_only returned)
    np_features,    \* the returned feature rows
    np_voxels,      \* the returned voxels: <<cluster, point>>, row by row
    calls,          \* number of calls started so far
    first_call,     \* <<>> or <<[event and result of the first call]>>
    others,         \* number of calls made on an event other than the first
    data_clusters,  \* clean parsers: the rows parse_cluster3d_full returned
    data_image,     \* clean parsers: the rows of the image tensor
    grp_rows,       \* grp_voxels and grp_data, row by row
    img_rows,       \* img_voxels and img_data, row by row
    cpc,            \* "idle", "parsed", "sorted", "deduped", "clean"
                    \* (parse_cluster3d_clean returned), "clean_full"
                    \* (parse_cluster3d_clean_full returned), "ValueError"
    sparse_data,    \* sparse parsers: the three input tensors
    sparse_out,     \* the result of parse_sparse3d_clean
    fragment_out,   \* the result of parse_sparse3d_fragment
    graph_particles,\* parse_particle_graph: the particle records
    edges,          \* the array of edges, row by row
    cluster_id,     \* the loop variable
    graph_pc,       \* "idle", "loop", "returned"
    particle,       \* the attributes of a Particle object
    assigned,       \* the attribute of the Particle that was set last
    nu,             \* the units and the position of a Neutrino object
    nu_meta,        \* the Meta the conversions are called with
    nu_point,       \* the position the Neutrino was constructed with, in cm
    nu_status       \* the last call on the Neutrino and its outcome

\* the variables of the clean and sparse parsers
tensor_vars == <<data_clusters, data_image, grp_rows, img_rows, cpc,
                 sparse_data, sparse_out, fragment_out>>

\* the variables of parse_particle_graph
graph_vars == <<graph_particles, edges, cluster_id, graph_pc>>

\* the variables of a Particle object
particle_vars == <<particle, assigned>>

\* the variables of a Neutrino object
neutrino_vars == <<nu, nu_meta, nu_point, nu_status>>

\* the variables of the graph parser and of the two objects
object_vars == <<graph_vars, particle_vars, neutrino_vars>>

\* the variables of parse_cluster3d_full and of the extended parsers
resolver_vars == <<particles_v, cluster_event, group_ids, new_group,
                   unique_gids, pos, pc, np_features, np_voxels, calls, first_call,
                   others>>

vars == <<particles_v, cluster_event, group_ids, new_group, unique_gids,
          pos, pc, np_features, np_voxels, calls, first_call, others, tensor_vars,
          object_vars>>

\* parse_particle_graph is not running
GraphIdle ==
    /\ graph_particles = <<>>
    /\ edges = <<>>
    /\ cluster_id = 0
    /\ graph_pc = "idle"

\* there is no Particle object
ParticleIdle ==
    /\ particle = <<>>
    /\ assigned = "none"

\* there is no Neutrino object
NeutrinoIdle ==
    /\ nu = <<>>
    /\ nu_meta = <<>>
    /\ nu_point = <<>>
    /\ nu_status = [call |-> "none", outcome |-> "none"]

ObjectsIdle == GraphIdle /\ ParticleIdle /\ NeutrinoIdle

\* no clean or sparse parser is running
TensorsIdle ==
    /\ data_clusters = <<>>
    /\ data_image = <<>>
    /\ grp_rows = <<>>
    /\ img_rows = <<>>
    /\ cpc = "idle"
    /\ sparse_data = <<>>
    /\ sparse_out = [status |-> "none", rows |-> <<>>]
    /\ fragment_out = [status |-> "none", rows |-> <<>>]

\* parse_cluster3d_full is not running
ResolverIdle ==
    /\ particles_v = <<>>
    /\ cluster_event = <<>>
    /\ group_ids = <<>>
    /\ new_group = 1
    /\ unique_gids = <<>>
    /\ pos = 1
    /\ pc = "idle"
    /\ np_features = <<>>
    /\ np_voxels = <<>>
    /\ calls = 0
    /\ first_call = <<>>
    /\ others = 0

-----------------------------------------------------------------------------
(***************************************************************************)
(* Helpers: numpy operations used by the resolver.                         *)
(***************************************************************************)
Abs(x) == IF x < 0 THEN 0 - x ELSE x

SetMin(S) == CHOOSE m \in S : \A x \in S : m <= x

SetMax(S) == CHOOSE m \in S : \A x \in S : x <= m

RECURSIVE SortedSeq(_)
\* the elements of a set of integers in increasing order
SortedSeq(S) ==
    IF S = {} THEN <<>>
    ELSE LET m == SetMin(S) IN <<m>> \o SortedSeq(S \ {m})

RECURSIVE Reverse(_)
Reverse(seq) ==
    IF seq = <<>> THEN <<>> ELSE Append(Reverse(Tail(seq)), Head(seq))

\* mutant of Unique: the distinct values in decreasing order
UniqueDescending(arr) == Reverse(SortedSeq({arr[j] : j \in DOMAIN arr}))

\* np.unique(arr): the sorted distinct values of an array
Unique(arr) == SortedSeq({arr[j] : j \in DOMAIN arr})

\* np.where(arr == v)[0]: the indices holding v, in increasing order
Where(arr, v) == SortedSeq({j \in DOMAIN arr : arr[j] = v})

\* mutant of ArgMin: np.argmax, the first occurrence of the maximum
ArgMax(seq) ==
    CHOOSE k \in 1..Len(seq) :
        /\ \A j \in 1..Len(seq) : seq[k] >= seq[j]
        /\ \A j \in 1..(k - 1) : seq[j] < seq[k]

\* mutant of ArgMin: the last occurrence of the minimum
ArgMinLast(seq) ==
    CHOOSE k \in 1..Len(seq) :
        /\ \A j \in 1..Len(seq) : seq[k] <= seq[j]
        /\ \A j \in (k + 1)..Len(seq) : seq[j] > seq[k]

\* np.argmin(seq): position (from 1) of the first occurrence of the minimum
ArgMin(seq) ==
    CHOOSE k \in 1..Len(seq) :
        /\ \A j \in 1..Len(seq) : seq[k] <= seq[j]
        /\ \A j \in 1..(k - 1) : seq[j] > seq[k]

\* 'word' in process
Contains(process, word) == \E k \in 1..Len(process) : process[k] = word

SeqRange(seq) == {seq[k] : k \in 1..Len(seq)}

\* group_ids[idxs] = v
AssignAt(arr, idxs, v) ==
    [j \in DOMAIN arr |-> IF j \in SeqRange(idxs) THEN v ELSE arr[j]]

\* rows[inds]
Take(rows, inds) == [k \in DOMAIN inds |-> rows[inds[k]]]

-----------------------------------------------------------------------------
(***************************************************************************)
(* Events.                                                                 *)
(***************************************************************************)
num_clusters == Cardinality(DOMAIN cluster_event)

ParticleRecords(n, shapes, processes, pdgs, times) ==
    [group_id : 0..(n - 1), shape : shapes, creation_process : processes,
     parent_pdg_code : pdgs, first_step_t : times]

\* particle lists of n records with dense ids (record i has id i)
ParticleLists(n, shapes, processes, pdgs, times) ==
    {[j \in 0..(n - 1) |-> [id |-> j] @@ attrs[j]] :
        attrs \in [0..(n - 1) -> ParticleRecords(n, shapes, processes, pdgs, times)]}

ClusterLists(n) == [0..(n - 1) -> 0..MaxVoxels]

\* the events of n particles whose attributes are drawn from the given sets
Events(n, shapes, processes, pdgs, times) ==
    ParticleLists(n, shapes, processes, pdgs, times) \X ClusterLists(n)

\* Events of fewer than MaxParticles particles with every combination of
\* attributes, and events of MaxParticles showers and tracks created by
\* the primary process with an electron or a mu- parent.
AllEvents ==
    UNION {Events(n, Shapes, Processes, PdgCodes, Times) :
             n \in 1..(MaxParticles - 1)}
    \cup Events(MaxParticles, {ShapeShower, 1}, {<<"primary">>},
                {11, MuonPdg}, Times)

\* mutant of EnterCall: the counter is not set again by a later call
EnterCallKeepCounter(pv, ce) ==
    /\ particles_v' = pv
    /\ cluster_event' = ce
    /\ group_ids' = [j \in DOMAIN pv |-> pv[j].group_id]
    /\ new_group' = new_group
    /\ unique_gids' = Unique([j \in DOMAIN pv |-> pv[j].group_id])
    /\ pos' = 1
    /\ pc' = "resolve"
    /\ np_features' = <<>>
    /\ np_voxels' = <<>>

\* lines 370-377: the state of parse_cluster3d_full before the loop
EnterCall(pv, ce) ==
    /\ particles_v' = pv
    /\ cluster_event' = ce
    /\ group_ids' = [j \in DOMAIN pv |-> pv[j].group_id]
    /\ new_group' = Cardinality(DOMAIN ce) + 1
    /\ unique_gids' = Unique([j \in DOMAIN pv |-> pv[j].group_id])
    /\ pos' = 1
    /\ pc' = "resolve"
    /\ np_features' = <<>>
    /\ np_voxels' = <<>>

\* mutant of InitOver: the counter of fresh ids starts at 1
InitOverCounterAtOne(events) ==
    \E ev \in events :
        LET pv == ev[1]
            ce == ev[2]
        IN  /\ particles_v = pv
            /\ cluster_event = ce
            /\ group_ids = [j \in DOMAIN pv |-> pv[j].group_id]
            /\ new_group = 1
            /\ unique_gids = Unique([j \in DOMAIN pv |-> pv[j].group_id])
            /\ pos = 1
            /\ pc = "resolve"
            /\ np_features = <<>>
            /\ np_voxels = <<>>
            /\ calls = 1
            /\ first_call = <<>>
            /\ others = 0
            /\ TensorsIdle
            /\ ObjectsIdle

\* the first call of parse_cluster3d_full, on an event of the given set
InitOver(events) ==
    \E ev \in events :
        LET pv == ev[1]
            ce == ev[2]
        IN  /\ particles_v = pv
            /\ cluster_event = ce
            /\ group_ids = [j \in DOMAIN pv |-> pv[j].group_id]
            /\ new_group = Cardinality(DOMAIN ce) + 1
            /\ unique_gids = Unique([j \in DOMAIN pv |-> pv[j].group_id])
            /\ pos = 1
            /\ pc = "resolve"
            /\ np_features = <<>>
            /\ np_voxels = <<>>
            /\ calls = 1
            /\ first_call = <<>>
            /\ others = 0
            /\ TensorsIdle
            /\ ObjectsIdle

Init == InitOver(AllEvents)

-----------------------------------------------------------------------------
(***************************************************************************)
(* The loop of parse_cluster3d_full over the declared group ids.           *)
(***************************************************************************)
InLoop == pc = "resolve" /\ pos <= Len(unique_gids)

gid == unique_gids[pos]

\* mutant of Gated: the shape gate is dropped
GatedAlways(g) == particles_v[g].shape = particles_v[g].shape

\* mutant of Gated: only a track primary (shape 1) skips the vetoes
GatedUnlessTrack(g) == particles_v[g].shape # 1

\* line 380, negated: the nominal primary is a shower or low energy
Gated(g) ==
    ~ (particles_v[g].shape # ShapeShower /\ particles_v[g].shape # ShapeLowE)

\* mutant of ProcessVeto: the parent PDG code is compared without abs()
ProcessVetoSigned(g) ==
    LET process == particles_v[g].creation_process
        parent_pdg_code == particles_v[g].parent_pdg_code
    IN  \/ Contains(process, "Inelastic")
        \/ Contains(process, "Capture")
        \/ parent_pdg_code = MuonPdg

\* line 387
ProcessVeto(g) ==
    LET process == particles_v[g].creation_process
        parent_pdg_code == Abs(particles_v[g].parent_pdg_code)
    IN  \/ Contains(process, "Inelastic")
        \/ Contains(process, "Capture")
        \/ parent_pdg_code = MuonPdg

\* mutant of EmptyPrimary: the cluster is taken at the loop counter i of
\* enumerate() instead of at gid
EmptyPrimaryAtCounter(g) ==
    LET parent_size == cluster_event[pos - 1] IN parent_size = 0

\* lines 393-394
EmptyPrimary(g) ==
    LET parent_size == cluster_event[g] IN parent_size = 0

\* mutant of NotFirstInTime: the time of particle gid is compared with the
\* earliest time of the members
NotEarliestTime(g) ==
    LET idxs == Where(group_ids, g)
        clust_times == [k \in 1..Len(idxs) |-> particles_v[idxs[k]].first_step_t]
        min_id == ArgMin(clust_times)
    IN  particles_v[g].first_step_t > clust_times[min_id]

\* mutant of NotFirstInTime: min_id itself is compared with gid
NotFirstByPosition(g) ==
    LET idxs == Where(group_ids, g)
        clust_times == [k \in 1..Len(idxs) |-> particles_v[idxs[k]].first_step_t]
        min_id == ArgMin(clust_times)
    IN  (min_id - 1) # g

\* lines 401-404
NotFirstInTime(g) ==
    LET idxs == Where(group_ids, g)
        clust_times == [k \in 1..Len(idxs) |-> particles_v[idxs[k]].first_step_t]
        min_id == ArgMin(clust_times)
    IN  idxs[min_id] # g

\* mutant of Demote: the new id is also written into the particle records
DemoteInPlace(g) ==
    LET idxs == Where(group_ids, g) IN
    /\ group_ids' = AssignAt(group_ids, idxs, new_group)
    /\ particles_v' =
         [j \in DOMAIN particles_v |->
            IF j \in SeqRange(idxs)
            THEN [particles_v[j] EXCEPT !.group_id = new_group]
            ELSE particles_v[j]]
    /\ new_group' = new_group + 1
    /\ pos' = pos + 1
    /\ UNCHANGED <<object_vars, tensor_vars, cluster_event, unique_gids, pc, np_features,
                   np_voxels, calls, first_call, others>>

\* mutant of Demote: the counter is not incremented
DemoteSameId(g) ==
    LET idxs == Where(group_ids, g) IN
    /\ group_ids' = AssignAt(group_ids, idxs, new_group)
    /\ new_group' = new_group
    /\ pos' = pos + 1
    /\ UNCHANGED <<object_vars, tensor_vars, particles_v, cluster_event, unique_gids, pc, np_features,
                   np_voxels, calls, first_call, others>>

\* mutant of Demote: only the member with the lowest id is reassigned
DemoteFirstMember(g) ==
    LET idxs == Where(group_ids, g) IN
    /\ group_ids' = AssignAt(group_ids, SubSeq(idxs, 1, 1), new_group)
    /\ new_group' = new_group + 1
    /\ pos' = pos + 1
    /\ UNCHANGED <<object_vars, tensor_vars, particles_v, cluster_event, unique_gids, pc, np_features,
                   np_voxels, calls, first_call, others>>

\* group_ids[idxs] = new_group; new_group += 1; continue
Demote(g) ==
    LET idxs == Where(group_ids, g) IN
    /\ group_ids' = AssignAt(group_ids, idxs, new_group)
    /\ new_group' = new_group + 1
    /\ pos' = pos + 1
    /\ UNCHANGED <<object_vars, tensor_vars, particles_v, cluster_event, unique_gids, pc, np_features,
                   np_voxels, calls, first_call, others>>

\* lines 380-381
KeepNonShower ==
    /\ InLoop
    /\ ~ Gated(gid)
    /\ pos' = pos + 1
    /\ UNCHANGED <<object_vars, tensor_vars, particles_v, cluster_event, group_ids, new_group,
                   unique_gids, pc, np_features, np_voxels, calls, first_call, others>>

\* lines 383-390
DemoteProcess ==
    /\ InLoop
    /\ Gated(gid)
    /\ ProcessVeto(gid)
    /\ Demote(gid)

\* lines 392-398
DemoteEmpty ==
    /\ InLoop
    /\ Gated(gid)
    /\ ~ ProcessVeto(gid)
    /\ EmptyPrimary(gid)
    /\ Demote(gid)

\* lines 400-407
DemoteTime ==
    /\ InLoop
    /\ Gated(gid)
    /\ ~ ProcessVeto(gid)
    /\ ~ EmptyPrimary(gid)
    /\ NotFirstInTime(gid)
    /\ Demote(gid)

\* the end of the loop body: every veto passed, the declared primary stands
KeepPrimary ==
    /\ InLoop
    /\ Gated(gid)
    /\ ~ ProcessVeto(gid)
    /\ ~ EmptyPrimary(gid)
    /\ ~ NotFirstInTime(gid)
    /\ pos' = pos + 1
    /\ UNCHANGED <<object_vars, tensor_vars, particles_v, cluster_event, group_ids, new_group,
                   unique_gids, pc, np_features, np_voxels, calls, first_call, others>>

-----------------------------------------------------------------------------
(***************************************************************************)
(* Output assembly of parse_cluster3d_full (lines 494-515).  A feature row *)
(* is <<cluster id, group id, semantic type>>: columns 1, 2 and 3 of the   *)
(* returned array (column 0, the voxel value, is not modelled).            *)
(***************************************************************************)
RECURSIVE Repeat(_, _)
\* np.full(shape=(n,), fill_value=row), as a sequence of n rows
Repeat(row, n) == IF n = 0 THEN <<>> ELSE <<row>> \o Repeat(row, n - 1)

RECURSIVE ClusterRowsDeclared(_)
\* mutant of ClusterRows: the group column is filled with the declared
\* group id of the particle (the fill_value left in the comment at line 507)
ClusterRowsDeclared(i) ==
    IF i = 0 THEN <<>>
    ELSE LET c == i - 1
             num_points == cluster_event[c]
             row == <<particles_v[c].id, particles_v[c].group_id,
                      particles_v[c].shape>>
         IN  ClusterRowsDeclared(c) \o Repeat(row, num_points)

RECURSIVE ClusterRows(_)
\* the rows appended by the clusters 0..(i - 1)
ClusterRows(i) ==
    IF i = 0 THEN <<>>
    ELSE LET c == i - 1
             num_points == cluster_event[c]
             row == <<particles_v[c].id, group_ids[c], particles_v[c].shape>>
         IN  ClusterRows(c) \o Repeat(row, num_points)

RECURSIVE ClusterVoxels(_)
\* the voxels appended by the clusters 0..(i - 1): point k of cluster c
ClusterVoxels(i) ==
    IF i = 0 THEN <<>>
    ELSE LET c == i - 1
             num_points == cluster_event[c]
         IN  ClusterVoxels(c) \o [k \in 1..num_points |-> <<c, k>>]

\* line 503 fails for some non-empty cluster
AssertFails ==
    \E c \in DOMAIN cluster_event :
        cluster_event[c] > 0 /\ c # particles_v[c].id

\* lines 494-515; np.concatenate raises ValueError on an empty list
Return ==
    /\ pc = "resolve"
    /\ pos > Len(unique_gids)
    /\ LET outcome == IF AssertFails THEN "AssertionError"
                      ELSE IF ClusterRows(num_clusters) = <<>> THEN "ValueError"
                      ELSE "done"
           rows == IF outcome = "done" THEN ClusterRows(num_clusters) ELSE <<>>
       IN  /\ pc' = outcome
           /\ np_features' = rows
           /\ np_voxels' =
                IF outcome = "done" THEN ClusterVoxels(num_clusters) ELSE <<>>
           /\ first_call' =
                IF first_call = <<>>
                THEN <<[particles_v |-> particles_v,
                        cluster_event |-> cluster_event,
                        group_ids |-> group_ids,
                        pc |-> outcome,
                        np_features |-> rows]>>
                ELSE first_call
    /\ UNCHANGED <<object_vars, tensor_vars, particles_v, cluster_event, group_ids, new_group,
                   unique_gids, pos, calls, others>>

(***************************************************************************)
(* parse_cluster3d_full_extended (lines 609-631).  get_interaction_id is   *)
(* mlreco.utils.groups code: it is taken as an injected pure function of   *)
(* the resolved group id with dense, discovery-ordered values.             *)
(***************************************************************************)
RECURSIVE Discovered(_)
\* the distinct group ids of the rows, in order of first appearance
Discovered(rows) ==
    IF rows = <<>> THEN <<>>
    ELSE LET before == Discovered(SubSeq(rows, 1, Len(rows) - 1))
             g == rows[Len(rows)][2]
         IN  IF g \in SeqRange(before) THEN before ELSE Append(before, g)

\* the maps group id -> interaction id that are dense in discovery order
InteractionMaps(rows) ==
    LET disc == Discovered(rows)
        n == Len(disc)
    IN  {f \in [SeqRange(disc) -> 0..(n - 1)] :
            \A k \in 1..n :
                \A v \in 0..(n - 1) :
                    (v < f[disc[k]]) => \E j \in 1..(k - 1) : f[disc[j]] = v}

\* get_interaction_id(particles, np_features) with the injected map f
get_interaction_id(rows, f) == [r \in 1..Len(rows) |-> f[rows[r][2]]]

\* lines 624-631
Extend ==
    /\ pc = "done"
    /\ \E f \in InteractionMaps(np_features) :
         LET interaction_ids == get_interaction_id(np_features, f) IN
         np_features' =
            [r \in 1..Len(np_features) |->
                <<np_features[r][2], interaction_ids[r], np_features[r][3]>>]
    /\ pc' = "labelled"
    /\ UNCHANGED <<object_vars, tensor_vars, particles_v, cluster_event, group_ids, new_group,
                   unique_gids, pos, np_voxels, calls, first_call, others>>

(***************************************************************************)
(* parse_cluster3d_full_extended2 (lines 651-664).  get_nu_id is           *)
(* mlreco.utils.groups code: it is taken as the flag the specification     *)
(* describes, 1 on the rows whose interaction id is the interaction id of  *)
(* a row of group 0 and 0 elsewhere.  It is called before the columns are  *)
(* replaced, so it reads the group id in column 2.                         *)
(***************************************************************************)
get_nu_id(rows, interaction_ids) ==
    [r \in 1..Len(rows) |->
        IF \E t \in 1..Len(rows) :
              rows[t][2] = 0 /\ interaction_ids[t] = interaction_ids[r]
        THEN 1 ELSE 0]

\* the rows after lines 660-661
ReplaceColumns(rows, interaction_ids) ==
    [r \in 1..Len(rows) |-> <<rows[r][2], interaction_ids[r], rows[r][3]>>]

\* mutant of NuRows: get_nu_id is called after the columns are replaced
NuRowsLate(rows, interaction_ids) ==
    LET replaced == ReplaceColumns(rows, interaction_ids)
        nu_ids == get_nu_id(replaced, interaction_ids)
    IN  [r \in 1..Len(rows) |-> Append(replaced[r], nu_ids[r])]

\* lines 656-663: the rows <<group id, interaction id, semantic type, nu id>>
NuRows(rows, interaction_ids) ==
    LET nu_ids == get_nu_id(rows, interaction_ids)
        replaced == ReplaceColumns(rows, interaction_ids)
    IN  [r \in 1..Len(rows) |-> Append(replaced[r], nu_ids[r])]

\* lines 652-664
Extend2 ==
    /\ pc = "done"
    /\ \E f \in InteractionMaps(np_features) :
         np_features' = NuRows(np_features, get_interaction_id(np_features, f))
    /\ pc' = "labelled2"
    /\ UNCHANGED <<object_vars, tensor_vars, particles_v, cluster_event, group_ids, new_group,
                   unique_gids, pos, np_voxels, calls, first_call, others>>

(***************************************************************************)
(* parse_cluster3d_full_extended_nu_only (lines 681-697): the rows of the  *)
(* neutrino interaction only.                                              *)
(***************************************************************************)
\* np.where(nu_ids > 0)[0], as positions from 1
NuInds(nu_ids) == SortedSeq({r \in DOMAIN nu_ids : nu_ids[r] > 0})

\* mutant of NuOnlyRows: the interaction ids are not restricted to inds
NuOnlyRowsAllIds(rows, interaction_ids) ==
    LET inds == NuInds(get_nu_id(rows, interaction_ids))
    IN  ReplaceColumns(Take(rows, inds), interaction_ids)

\* lines 688-696: the kept rows <<group id, interaction id, semantic type>>
NuOnlyRows(rows, interaction_ids) ==
    LET inds == NuInds(get_nu_id(rows, interaction_ids))
    IN  ReplaceColumns(Take(rows, inds), Take(interaction_ids, inds))

\* lines 682-697
ExtendNuOnly ==
    /\ pc = "done"
    /\ \E f \in InteractionMaps(np_features) :
         LET interaction_ids == get_interaction_id(np_features, f)
             inds == NuInds(get_nu_id(np_features, interaction_ids))
         IN  /\ np_voxels' = Take(np_voxels, inds)
             /\ np_features' = NuOnlyRows(np_features, interaction_ids)
    /\ pc' = "nu_only"
    /\ UNCHANGED <<object_vars, tensor_vars, particles_v, cluster_event, group_ids, new_group,
                   unique_gids, pos, calls, first_call, others>>

Next ==
    \/ KeepNonShower
    \/ DemoteProcess
    \/ DemoteEmpty
    \/ DemoteTime
    \/ KeepPrimary
    \/ Return
    \/ Extend
    \/ Extend2
    \/ ExtendNuOnly

Spec == Init /\ [][Next]_vars

(***************************************************************************)
(* Several calls in a row.  The parsers are module-level functions: the    *)
(* next call starts from lines 370-377 again, on the same event or on      *)
(* another one.  The events of this specification have fewer than          *)
(* MaxParticles particles, all created at one time with an electron        *)
(* parent: tracks and showers, from the primary process or from a capture, *)
(* with one voxel, and primary showers with an empty cluster.              *)
(***************************************************************************)
CallEvents ==
    {ev \in UNION {Events(n, {ShapeShower, 1},
                          {<<"primary">>, <<"muMinus", "Capture", "AtRest">>},
                          {11}, {0}) : n \in 1..(MaxParticles - 1)} :
        \A j \in DOMAIN ev[1] :
            \/ ev[2][j] = 1
            \/ /\ ev[1][j].shape = ShapeShower
               /\ ev[1][j].creation_process = <<"primary">>
               /\ ev[2][j] = 0}

Returned ==
    pc \in {"done", "AssertionError", "ValueError", "labelled", "labelled2",
           "nu_only"}

NewCall ==
    /\ Returned
    /\ calls < MaxCalls
    /\ \E ev \in CallEvents :
         /\ EnterCall(ev[1], ev[2])
         /\ others' = IF /\ ev[1] = first_call[1].particles_v
                         /\ ev[2] = first_call[1].cluster_event
                      THEN others ELSE others + 1
    /\ calls' = calls + 1
    /\ UNCHANGED <<object_vars, tensor_vars, first_call>>

InitCalls == InitOver(CallEvents)

NextCalls == Next \/ NewCall

SpecCalls == InitCalls /\ [][NextCalls]_vars

(***************************************************************************)
(* Unchecked inputs.  The events of this specification have up to          *)
(* MaxParticles - 1 particles, none included, and the id of a record is    *)
(* any id of the event, not necessarily its position in the list; the      *)
(* particles are showers and tracks with an electron parent.               *)
(***************************************************************************)
LooseParticleLists(n) ==
    [0..(n - 1) ->
        [id : 0..(n - 1), parent_id : 0..(n - 1), group_id : 0..(n - 1),
         shape : {ShapeShower, 1},
         creation_process : {<<"primary">>, <<"muMinus", "Capture", "AtRest">>},
         parent_pdg_code : {11}, first_step_t : Times]]

LooseEvents ==
    UNION {LooseParticleLists(n) \X ClusterLists(n) :
             n \in 0..(MaxParticles - 1)}

InitLoose == InitOver(LooseEvents)

SpecLoose == InitLoose /\ [][Next]_vars

-----------------------------------------------------------------------------
(***************************************************************************)
(* The clean parsers.  parse_cluster3d_clean and parse_cluster3d_clean_full*)
(* take the rows of parse_cluster3d_full and the rows of the image tensor  *)
(* (parse_sparse3d_scn), sort both, drop the duplicate voxels of the       *)
(* clusters, drop the voxels that are not in the image; the full variant   *)
(* then overwrites the last column with the last column of the image.      *)
(* A row of the clusters is a record: its value field is the position of   *)
(* the row in the input, so a row of the output names the row it is from.  *)
(***************************************************************************)
MaxRows == 3        \* rows of the cluster tensor

MaxImage == 2       \* rows of the image tensor

MaxCluster == 1     \* highest cluster id

\* three coordinates, on which the order of np.lexsort and the order of
\* np.unique(axis=0) differ
Voxels == {<<0, 0, 1>>, <<1, 0, 0>>, <<1, 1, 1>>}

ClusterIds == 0..MaxCluster

GroupLabels == {0, 1}

SemLabels == {0, 1}

ImageLabels == {1, 2}

\* the rows parse_cluster3d_full returns: cluster after cluster, every row
\* of a cluster with the group id and the semantic type of the cluster
ClusterTensors ==
    UNION {
      {[k \in 1..n |->
          [voxel |-> vc[k][1], value |-> k, cluster_id |-> vc[k][2],
           group_id |-> lab[vc[k][2]][1], sem_type |-> lab[vc[k][2]][2]]] :
         vc \in {f \in [1..n -> Voxels \X ClusterIds] :
                   \A k \in 1..(n - 1) : f[k][2] <= f[k + 1][2]},
         lab \in [ClusterIds -> GroupLabels \X SemLabels]} :
      n \in 1..MaxRows}

\* the rows parse_sparse3d_scn returns for the image: voxel and value
ImageTensors ==
    UNION {[1..n -> [voxel : Voxels, value : ImageLabels]] : n \in 0..MaxImage}

\* the order of np.lexsort(voxels.T): the last key, z, is the primary one
LexLess(a, b) ==
    \/ a[3] < b[3]
    \/ a[3] = b[3] /\ a[2] < b[2]
    \/ a[3] = b[3] /\ a[2] = b[2] /\ a[1] < b[1]

RECURSIVE SortIndices(_, _)
SortIndices(rows, todo) ==
    IF todo = {} THEN <<>>
    ELSE LET i == CHOOSE c \in todo : \A d \in todo \ {c} :
                     \/ LexLess(rows[c].voxel, rows[d].voxel)
                     \/ rows[c].voxel = rows[d].voxel /\ c < d
         IN  <<i>> \o SortIndices(rows, todo \ {i})

\* a sort on which rows of one voxel come out in descending position
RECURSIVE SortIndicesTiesReversed(_, _)
SortIndicesTiesReversed(rows, todo) ==
    IF todo = {} THEN <<>>
    ELSE LET i == CHOOSE c \in todo : \A d \in todo \ {c} :
                     \/ LexLess(rows[c].voxel, rows[d].voxel)
                     \/ rows[c].voxel = rows[d].voxel /\ c > d
         IN  <<i>> \o SortIndicesTiesReversed(rows, todo \ {i})

\* a sort that is not stable
LexSortTiesReversed(rows) == SortIndicesTiesReversed(rows, DOMAIN rows)

\* perm = np.lexsort(voxels.T): a stable sort, equal voxels keep their order
LexSort(rows) == SortIndices(rows, DOMAIN rows)

\* filter_duplicate_voxels on sorted rows: the first row of every voxel
filter_duplicate_voxels(rows) ==
    [k \in DOMAIN rows |-> k = 1 \/ rows[k].voxel # rows[k - 1].voxel]

\* filter_nonimg_voxels: the rows whose voxel is a voxel of the image
filter_nonimg_voxels(rows, img) ==
    [k \in DOMAIN rows |-> \E j \in DOMAIN img : img[j].voxel = rows[k].voxel]

\* np.where(sel)[0], as positions from 1
WhereTrue(sel) == SortedSeq({k \in DOMAIN sel : sel[k]})

InitClean ==
    /\ ResolverIdle
    /\ ObjectsIdle
    /\ data_clusters \in ClusterTensors
    /\ data_image \in ImageTensors
    /\ grp_rows = data_clusters
    /\ img_rows = data_image
    /\ cpc = "parsed"
    /\ sparse_data = <<>>
    /\ sparse_out = [status |-> "none", rows |-> <<>>]
    /\ fragment_out = [status |-> "none", rows |-> <<>>]

\* step 1: both tensors are sorted
SortStep ==
    /\ cpc = "parsed"
    /\ grp_rows' = Take(grp_rows, LexSort(grp_rows))
    /\ img_rows' = Take(img_rows, LexSort(img_rows))
    /\ cpc' = "sorted"
    /\ UNCHANGED <<object_vars, resolver_vars, data_clusters, data_image, sparse_data,
                   sparse_out, fragment_out>>

\* step 2: the duplicates of the clusters are removed
DuplicateStep ==
    /\ cpc = "sorted"
    /\ grp_rows' = Take(grp_rows, WhereTrue(filter_duplicate_voxels(grp_rows)))
    /\ cpc' = "deduped"
    /\ UNCHANGED <<object_vars, resolver_vars, data_clusters, data_image, img_rows,
                   sparse_data, sparse_out, fragment_out>>

\* step 3 forgotten: every row is kept
NonImageStepKeepsAll ==
    /\ cpc = "deduped"
    /\ cpc' = "clean"
    /\ UNCHANGED <<object_vars, resolver_vars, data_clusters, data_image, grp_rows,
                   img_rows, sparse_data, sparse_out, fragment_out>>

\* step 3: the voxels that are not in the image are removed; the rows are
\* what parse_cluster3d_clean returns
NonImageStep ==
    /\ cpc = "deduped"
    /\ grp_rows' =
         Take(grp_rows, WhereTrue(filter_nonimg_voxels(grp_rows, img_rows)))
    /\ cpc' = "clean"
    /\ UNCHANGED <<object_vars, resolver_vars, data_clusters, data_image, img_rows,
                   sparse_data, sparse_out, fragment_out>>

\* grp_data[:,-1] = img_data[:,-1] is defined when the two columns have the
\* same length or the image has one row, which is broadcast
Assignable == Len(img_rows) = Len(grp_rows) \/ Len(img_rows) = 1

\* step 4 of parse_cluster3d_clean_full: the last column of the rows is
\* overwritten, position by position, with the last column of the image
OverrideStep ==
    /\ cpc = "clean"
    /\ IF Assignable
       THEN /\ grp_rows' =
                 [k \in DOMAIN grp_rows |->
                    [grp_rows[k] EXCEPT !.sem_type =
                       IF Len(img_rows) = Len(grp_rows)
                       THEN img_rows[k].value ELSE img_rows[1].value]]
            /\ cpc' = "clean_full"
       ELSE /\ grp_rows' = grp_rows
            /\ cpc' = "ValueError"
    /\ UNCHANGED <<object_vars, resolver_vars, data_clusters, data_image, img_rows,
                   sparse_data, sparse_out, fragment_out>>

NextClean == SortStep \/ DuplicateStep \/ NonImageStep \/ OverrideStep

SpecClean == InitClean /\ [][NextClean]_vars

-----------------------------------------------------------------------------
(***************************************************************************)
(* The sparse parsers.  parse_sparse3d_clean takes three sparse tensors    *)
(* (energy, group, label), parse_sparse3d_fragment one; here it is given   *)
(* the label tensor.  A row is a voxel and a value; the value of a row of  *)
(* the energy and of the group tensor is the position of the row.          *)
(***************************************************************************)
MaxSparse == 2      \* rows of a sparse tensor

LabelCut == 5       \* parse_sparse3d_clean keeps the labels below it

FragmentCut == 4    \* parse_sparse3d_fragment keeps the values below it

SparseLabels == {3, 4, 5}

\* tensors whose values are the positions of the rows
PositionTensors ==
    UNION {{[k \in 1..n |-> [voxel |-> f[k], value |-> k]] :
              f \in [1..n -> Voxels]} : n \in 0..MaxSparse}

LabelTensors ==
    UNION {[1..n -> [voxel : Voxels, value : SparseLabels]] :
             n \in 0..MaxSparse}

\* the order in which np.unique(axis=0) returns the rows: the first
\* component, x, is the primary one
UniqueLess(a, b) ==
    \/ a[1] < b[1]
    \/ a[1] = b[1] /\ a[2] < b[2]
    \/ a[1] = b[1] /\ a[2] = b[2] /\ a[3] < b[3]

RECURSIVE UniqueOrder(_, _)
UniqueOrder(rows, todo) ==
    IF todo = {} THEN <<>>
    ELSE LET i == CHOOSE c \in todo : \A d \in todo \ {c} :
                     UniqueLess(rows[c].voxel, rows[d].voxel)
         IN  <<i>> \o UniqueOrder(rows, todo \ {i})

\* unique_indices of np.unique(voxels, axis=0, return_index=True): the first
\* occurrence of every distinct voxel, the voxels in the order of np.unique
UniqueIndices(rows) ==
    UniqueOrder(rows, {k \in DOMAIN rows :
                         \A j \in 1..(k - 1) : rows[j].voxel # rows[k].voxel})

\* lexsort, then unique, both applied to voxels and data
SortedUnique(rows) ==
    LET sorted == Take(rows, LexSort(rows))
    IN  Take(sorted, UniqueIndices(sorted))

\* rows[mask] for the mask value < cut
Below(rows, cut) == SelectSeq(rows, LAMBDA r : r.value < cut)

\* parse_sparse3d_fragment on one tensor
FragmentRows(rows) ==
    LET kept == Below(SortedUnique(rows), FragmentCut)
    IN  Take(kept, LexSort(kept))

\* the three columns np.concatenate is given by parse_sparse3d_clean, and
\* the voxels it returns: img_data is the energy column as parsed (it is
\* neither sorted nor made unique), indexed by inds2
CleanColumns(data) ==
    LET img_voxels == SortedUnique(data[1])
        grp == SortedUnique(data[2])
        labelled == Below(SortedUnique(data[3]), LabelCut)
        grp_kept == Take(grp, WhereTrue(filter_nonimg_voxels(grp, labelled)))
        inds2 == WhereTrue(filter_nonimg_voxels(img_voxels, labelled))
    IN  [voxels |-> [k \in DOMAIN grp_kept |-> grp_kept[k].voxel],
         img_data |-> [k \in DOMAIN inds2 |-> data[1][inds2[k]].value],
         grp_data |-> [k \in DOMAIN grp_kept |-> grp_kept[k].value],
         label_data |-> [k \in DOMAIN labelled |-> labelled[k].value]]

InitSparse ==
    /\ ResolverIdle
    /\ ObjectsIdle
    /\ data_clusters = <<>>
    /\ data_image = <<>>
    /\ grp_rows = <<>>
    /\ img_rows = <<>>
    /\ cpc = "idle"
    /\ sparse_data \in PositionTensors \X PositionTensors \X LabelTensors
    /\ sparse_out = [status |-> "none", rows |-> <<>>]
    /\ fragment_out = [status |-> "none", rows |-> <<>>]

\* parse_sparse3d_clean(data): np.concatenate along axis 1 raises ValueError
\* unless the three columns have the same number of rows
SparseClean ==
    /\ sparse_out.status = "none"
    /\ LET c == CleanColumns(sparse_data)
       IN  sparse_out' =
             IF /\ Len(c.img_data) = Len(c.grp_data)
                /\ Len(c.grp_data) = Len(c.label_data)
             THEN [status |-> "ok",
                   rows |-> [k \in DOMAIN c.voxels |->
                               [voxel |-> c.voxels[k],
                                energy |-> c.img_data[k],
                                group |-> c.grp_data[k],
                                label |-> c.label_data[k]]]]
             ELSE [status |-> "ValueError", rows |-> <<>>]
    /\ UNCHANGED <<object_vars, resolver_vars, data_clusters, data_image, grp_rows,
                   img_rows, cpc, sparse_data, fragment_out>>

\* parse_sparse3d_fragment([data[2]])
Fragment ==
    /\ fragment_out.status = "none"
    /\ fragment_out' = [status |-> "ok", rows |-> FragmentRows(sparse_data[3])]
    /\ UNCHANGED <<object_vars, resolver_vars, data_clusters, data_image, grp_rows,
                   img_rows, cpc, sparse_data, sparse_out>>

NextSparse == SparseClean \/ Fragment

SpecSparse == InitSparse /\ [][NextSparse]_vars

-----------------------------------------------------------------------------
(***************************************************************************)
(* parse_particle_graph: one pass over the particle records, which adds    *)
(* the edges of a record to the array of edges.                            *)
(***************************************************************************)
MaxGraph == 3       \* particles of the graph

\* particle lists of n records with dense ids, any parent and any group
GraphParticleLists(n) ==
    {[j \in 0..(n - 1) |-> [id |-> j] @@ attrs[j]] :
        attrs \in [0..(n - 1) -> [parent_id : 0..(n - 1), group_id : 0..(n - 1)]]}

InitGraph ==
    /\ ResolverIdle
    /\ TensorsIdle
    /\ graph_particles \in UNION {GraphParticleLists(n) : n \in 1..MaxGraph}
    /\ edges = <<>>
    /\ cluster_id = 0
    /\ graph_pc = "loop"
    /\ ParticleIdle
    /\ NeutrinoIdle

\* the rows np.vstack adds for record c: the two conditions exclude each
\* other, so at most one edge, to the parent or else to the group
EdgesOf(c) ==
    LET p == graph_particles[c]
    IN  (IF p.parent_id # p.id THEN <<<<p.parent_id, c>>>> ELSE <<>>)
        \o (IF p.parent_id = p.id /\ p.group_id # p.id
            THEN <<<<p.group_id, c>>>> ELSE <<>>)

\* one iteration of the loop over cluster_id
GraphStep ==
    /\ graph_pc = "loop"
    /\ cluster_id < Cardinality(DOMAIN graph_particles)
    /\ edges' = edges \o EdgesOf(cluster_id)
    /\ cluster_id' = cluster_id + 1
    /\ UNCHANGED <<resolver_vars, tensor_vars, graph_particles, graph_pc,
                   particle_vars, neutrino_vars>>

\* return edges
GraphReturn ==
    /\ graph_pc = "loop"
    /\ cluster_id = Cardinality(DOMAIN graph_particles)
    /\ graph_pc' = "returned"
    /\ UNCHANGED <<resolver_vars, tensor_vars, graph_particles, edges,
                   cluster_id, particle_vars, neutrino_vars>>

NextGraph == GraphStep \/ GraphReturn

SpecGraph == InitGraph /\ [][NextGraph]_vars

-----------------------------------------------------------------------------
(***************************************************************************)
(* The Particle class (analysis/classes/Particle.py): a Particle object,   *)
(* its private attributes, and the setters of its properties.  Arrays are  *)
(* sequences; a deposition is a whole number of ADC units and a score a    *)
(* whole number, negative when no score is given.                          *)
(***************************************************************************)
MaxArray == 2       \* length of an index, depositions or fragment id array

MaxScores == 2      \* length of a score array

ArrayValues == {1, 2}

ScoreValues == {0 - 1, 0, 1}

Arrays == UNION {[1..n -> ArrayValues] : n \in 0..MaxArray}

ScoreArrays == UNION {[1..n -> ScoreValues] : n \in 2..MaxScores}

\* the values of the pid and is_primary arguments of the constructor
Labels == {0 - 1, 1}

RECURSIVE NpSum(_)
\* np.sum(arr)
NpSum(arr) ==
    IF arr = <<>> THEN 0 ELSE arr[1] + NpSum(SubSeq(arr, 2, Len(arr)))

\* np.argmax(arr): the first position of the maximum, counted from 0
NpArgMax(arr) ==
    SetMin({k \in DOMAIN arr : \A j \in DOMAIN arr : arr[j] <= arr[k]}) - 1

\* np.all(arr < 0)
AllNegative(arr) == \A k \in DOMAIN arr : arr[k] < 0

\* lines 158-161
SetFragmentIds(p, v) ==
    [p EXCEPT !._fragment_ids = v, !._num_fragments = Len(v)]

\* lines 180-183
SetIndexOf(p, v) == [p EXCEPT !._index = v, !._size = Len(v)]

\* lines 202-205
SetDepositionsOf(p, v) ==
    [p EXCEPT !._depositions = v, !._depositions_sum = NpSum(v)]

\* lines 216-224: the branch of the unknown scores does not return, the
\* two assignments below it run in every case
SetPidScoresOf(p, v) ==
    LET unknown == IF v[1] < 0
                   THEN [p EXCEPT !._pid_scores = v, !.pid = 0 - 1]
                   ELSE p
    IN  [unknown EXCEPT !._pid_scores = v, !.pid = NpArgMax(v)]

\* lines 235-243
SetPrimaryScoresOf(p, v) ==
    LET unknown == IF v[1] < 0
                   THEN [p EXCEPT !._primary_scores = v, !.is_primary = 0 - 1]
                   ELSE p
    IN  [unknown EXCEPT !._primary_scores = v, !.is_primary = NpArgMax(v)]

\* lines 88-93
Blank ==
    [_fragment_ids |-> <<>>, _num_fragments |-> 0, _index |-> <<>>,
     _size |-> 0, _depositions |-> <<>>, _depositions_sum |-> 0,
     _pid_scores |-> <<>>, pid |-> 0 - 1, _primary_scores |-> <<>>,
     is_primary |-> 0 - 1]

\* Particle.__init__, lines 96-112, on the record of its arguments
Construct(args) ==
    LET p1 == SetFragmentIds(Blank, args.fragment_ids)
        p2 == SetIndexOf(p1, args.index)
        p3 == SetDepositionsOf(p2, args.depositions)
        p4 == SetPidScoresOf(p3, args.pid_scores)
        p5 == IF AllNegative(args.pid_scores)
              THEN [p4 EXCEPT !.pid = args.pid] ELSE p4
        p6 == SetPrimaryScoresOf(p5, args.primary_scores)
    IN  IF AllNegative(args.primary_scores)
        THEN [p6 EXCEPT !.is_primary = args.is_primary] ELSE p6

InitParticle ==
    /\ ResolverIdle
    /\ TensorsIdle
    /\ GraphIdle
    /\ NeutrinoIdle
    /\ \E f \in Arrays, d \in Arrays, s \in ScoreArrays, l \in Labels :
         particle = Construct([fragment_ids |-> f, index |-> <<>>,
                               depositions |-> d, pid_scores |-> s,
                               pid |-> l, primary_scores |-> s,
                               is_primary |-> l])
    /\ assigned = "none"

\* the getters
num_fragments == particle._num_fragments

fragment_ids == particle._index

size == particle._size

index == particle._index

depositions_sum == particle._size

depositions == particle._depositions

pid_scores == particle._pid_scores

primary_scores == particle._primary_scores

\* p.fragment_ids = v
AssignFragmentIds ==
    /\ \E v \in Arrays : particle' = SetFragmentIds(particle, v)
    /\ assigned' = "fragment_ids"
    /\ UNCHANGED <<resolver_vars, tensor_vars, graph_vars, neutrino_vars>>

\* p.index = v
AssignIndex ==
    /\ \E v \in Arrays : particle' = SetIndexOf(particle, v)
    /\ assigned' = "index"
    /\ UNCHANGED <<resolver_vars, tensor_vars, graph_vars, neutrino_vars>>

\* p.depositions = v
AssignDepositions ==
    /\ \E v \in Arrays : particle' = SetDepositionsOf(particle, v)
    /\ assigned' = "depositions"
    /\ UNCHANGED <<resolver_vars, tensor_vars, graph_vars, neutrino_vars>>

\* p.pid_scores = v
AssignPidScores ==
    /\ \E v \in ScoreArrays : particle' = SetPidScoresOf(particle, v)
    /\ assigned' = "pid_scores"
    /\ UNCHANGED <<resolver_vars, tensor_vars, graph_vars, neutrino_vars>>

\* p.primary_scores = v
AssignPrimaryScores ==
    /\ \E v \in ScoreArrays : particle' = SetPrimaryScoresOf(particle, v)
    /\ assigned' = "primary_scores"
    /\ UNCHANGED <<resolver_vars, tensor_vars, graph_vars, neutrino_vars>>

NextParticle ==
    \/ AssignFragmentIds
    \/ AssignIndex
    \/ AssignDepositions
    \/ AssignPidScores
    \/ AssignPrimaryScores

SpecParticle == InitParticle /\ [][NextParticle]_vars

-----------------------------------------------------------------------------
(***************************************************************************)
(* The Neutrino class (mlreco/utils/data_structures/neutrino.py): units,   *)
(* position, and the two conversions.  Meta is the class of the module     *)
(* .meta: its conversions are taken as the affine maps of an image with a  *)
(* lower bound and a pixel size, pixel = (cm - lower) / size, and computed *)
(* exactly, on fractions <<numerator, denominator>>.                       *)
(***************************************************************************)
MaxCoord == 1       \* highest coordinate of the interaction point, in cm

Metas == [lower : {0 - 1, 0}, size : {1, 2}]

Points == [1..3 -> 0..MaxCoord]

RECURSIVE Gcd(_, _)
Gcd(a, b) == IF b = 0 THEN a ELSE Gcd(b, a % b)

\* the fraction n / d in lowest terms, d > 0
Fraction(n, d) ==
    LET g == Gcd(Abs(n), d) IN <<n \div g, d \div g>>

\* Meta.to_cm on one coordinate
MetaToCm(meta, x) == Fraction(meta.lower * x[2] + x[1] * meta.size, x[2])

\* Meta.to_pixel on one coordinate
MetaToPixel(meta, x) == Fraction(x[1] - meta.lower * x[2], x[2] * meta.size)

\* a Neutrino built by from_larcv: the position of the interaction in cm,
\* units left at the default
InitNeutrino ==
    /\ ResolverIdle
    /\ TensorsIdle
    /\ GraphIdle
    /\ ParticleIdle
    /\ nu_meta \in Metas
    /\ nu_point \in Points
    /\ nu = [units |-> "cm",
             position |-> [k \in 1..3 |-> Fraction(nu_point[k], 1)]]
    /\ nu_status = [call |-> "from_larcv", outcome |-> "returned"]

\* mutant of ToCm: the assertion is dropped
ToCmUnchecked ==
    /\ nu' = [units |-> "cm",
              position |-> [k \in 1..3 |-> MetaToCm(nu_meta, nu.position[k])]]
    /\ nu_status' = [call |-> "to_cm", outcome |-> "returned"]
    /\ UNCHANGED <<resolver_vars, tensor_vars, graph_vars, particle_vars,
                   nu_meta, nu_point>>

\* lines 124-127
ToCm ==
    /\ IF nu.units # "cm"
       THEN /\ nu' = [units |-> "cm",
                      position |-> [k \in 1..3 |->
                                      MetaToCm(nu_meta, nu.position[k])]]
            /\ nu_status' = [call |-> "to_cm", outcome |-> "returned"]
       ELSE /\ nu' = nu
            /\ nu_status' = [call |-> "to_cm", outcome |-> "AssertionError"]
    /\ UNCHANGED <<resolver_vars, tensor_vars, graph_vars, particle_vars,
                   nu_meta, nu_point>>

\* lines 137-140
ToPixel ==
    /\ IF nu.units # "pixel"
       THEN /\ nu' = [units |-> "pixel",
                      position |-> [k \in 1..3 |->
                                      MetaToPixel(nu_meta, nu.position[k])]]
            /\ nu_status' = [call |-> "to_pixel", outcome |-> "returned"]
       ELSE /\ nu' = nu
            /\ nu_status' = [call |-> "to_pixel", outcome |-> "AssertionError"]
    /\ UNCHANGED <<resolver_vars, tensor_vars, graph_vars, particle_vars,
                   nu_meta, nu_point>>

NextNeutrino == ToCm \/ ToPixel

SpecNeutrino == InitNeutrino /\ [][NextNeutrino]_vars

-----------------------------------------------------------------------------
(***************************************************************************)
(* Vocabulary of the properties.  They are stated on the event and on the  *)
(* final group_ids, in their own terms (not with the guards of the loop).  *)
(***************************************************************************)
Particles == DOMAIN particles_v

Declared(p) == particles_v[p].group_id

DeclaredGroups == {Declared(p) : p \in Particles}

Members(g) == {p \in Particles : Declared(p) = g}

\* the loop over the declared groups is over
Resolved == pc # "resolve" \/ pos > Len(unique_gids)

\* every member of g still has group id g
KeptGroup(g) == \A p \in Members(g) : group_ids[p] = g

\* the members of g share one id that is no declared group id and that no
\* particle outside g has
DemotedGroup(g) ==
    \E v \in {group_ids[p] : p \in Members(g)} :
        /\ \A p \in Members(g) : group_ids[p] = v
        /\ v \notin DeclaredGroups
        /\ \A q \in Particles \ Members(g) : group_ids[q] # v

ShowerLike(g) == particles_v[g].shape \in {0, 4}

VetoedOrigin(g) ==
    \/ "Inelastic" \in SeqRange(particles_v[g].creation_process)
    \/ "Capture" \in SeqRange(particles_v[g].creation_process)
    \/ particles_v[g].parent_pdg_code \in {13, 0 - 13}

Time(p) == particles_v[p].first_step_t

\* p comes before q: earlier in time, or at the same time with a lower id
Before(p, q) == Time(p) < Time(q) \/ (Time(p) = Time(q) /\ p < q)

\* g is a member of its group and no other member comes before it
EarliestOfGroup(g) ==
    /\ g \in Members(g)
    /\ \A p \in Members(g) : ~ Before(p, g)

\* C1: when the loop is over, every declared group whose nominal primary
\* is neither a shower nor low energy has all its members still in it,
\* whatever the process, parent, cluster size and times are.
C1_ShapeGate ==
    Resolved =>
        \A g \in DeclaredGroups : ~ ShowerLike(g) => KeptGroup(g)

\* a finished resolution with a track-led group whose primary has an empty
\* cluster and a vetoed origin, and is not its earliest member
C1_Witness ==
    /\ Resolved
    /\ \E g \in DeclaredGroups :
        /\ particles_v[g].shape = 1
        /\ cluster_event[g] = 0
        /\ VetoedOrigin(g)
        /\ ~ EarliestOfGroup(g)
        /\ KeptGroup(g)

\* C2: when the loop is over, every shower or low-energy led group whose
\* primary comes from an inelastic or capture process or has a muon parent
\* has all its members under one fresh id, whatever its size and times.
C2_ProcessVeto ==
    Resolved =>
        \A g \in DeclaredGroups :
            (ShowerLike(g) /\ VetoedOrigin(g)) => DemotedGroup(g)

\* a demoted group with two members whose primary has a mu+ parent, a
\* non-empty cluster and is the earliest member
C2_Witness ==
    /\ Resolved
    /\ \E g \in DeclaredGroups :
        /\ ShowerLike(g)
        /\ particles_v[g].parent_pdg_code = 0 - 13
        /\ particles_v[g].creation_process = <<"primary">>
        /\ cluster_event[g] > 0
        /\ EarliestOfGroup(g)
        /\ Cardinality(Members(g)) = 2
        /\ DemotedGroup(g)

\* C3: when the loop is over, every shower or low-energy led group that
\* passes the origin and empty-primary vetoes and has a member strictly
\* earlier than its primary has all its members under one fresh id.
C3_TimeVeto ==
    Resolved =>
        \A g \in DeclaredGroups :
            ( /\ ShowerLike(g)
              /\ ~ VetoedOrigin(g)
              /\ cluster_event[g] > 0
              /\ \E p \in Members(g) : Time(p) < Time(g) ) => DemotedGroup(g)

\* three showers declared in group 0, particle 1 strictly the earliest,
\* all demoted to one fresh id
C3_Witness ==
    /\ Resolved
    /\ Members(0) = {0, 1, 2}
    /\ \A p \in Members(0) : particles_v[p].shape = 0
    /\ ~ VetoedOrigin(0)
    /\ cluster_event[0] > 0
    /\ Time(1) < Time(0)
    /\ Time(1) < Time(2)
    /\ DemotedGroup(0)

\* C4: when the loop is over, every shower or low-energy led group that
\* passes the origin veto and whose primary has an empty cluster has all
\* its members under one fresh id, also when it has one member.
C4_EmptyPrimaryVeto ==
    Resolved =>
        \A g \in DeclaredGroups :
            ( /\ ShowerLike(g)
              /\ ~ VetoedOrigin(g)
              /\ cluster_event[g] = 0 ) => DemotedGroup(g)

\* a demoted group made of its primary alone, with an empty cluster
C4_Witness ==
    /\ Resolved
    /\ \E g \in DeclaredGroups :
        /\ ShowerLike(g)
        /\ ~ VetoedOrigin(g)
        /\ cluster_event[g] = 0
        /\ Members(g) = {g}
        /\ DemotedGroup(g)

\* C5: when the loop is over, a declared group is kept exactly when it is
\* not shower or low-energy led or its primary has a clean origin, a
\* non-empty cluster and is the earliest member; otherwise it is demoted.
C5_NoFalseDemotion ==
    Resolved =>
        \A g \in DeclaredGroups :
            LET vetoed == \/ VetoedOrigin(g)
                          \/ cluster_event[g] = 0
                          \/ ~ EarliestOfGroup(g)
            IN  /\ (ShowerLike(g) /\ ~ vetoed) => KeptGroup(g)
                /\ KeptGroup(g) <=> ~ (ShowerLike(g) /\ vetoed)
                /\ DemotedGroup(g) <=> (ShowerLike(g) /\ vetoed)

\* a kept shower-led group of two members next to nothing else, whose
\* primary is particle 1, earlier than particle 0
C5_Witness ==
    /\ Resolved
    /\ Members(1) = {0, 1}
    /\ ShowerLike(1)
    /\ ~ VetoedOrigin(1)
    /\ cluster_event[1] > 0
    /\ Time(1) < Time(0)
    /\ KeptGroup(1)

\* a shower or low-energy led group that passes the origin and empty
\* vetoes and whose primary is a member with the minimal time of the group
TiedCandidate(g) ==
    /\ ShowerLike(g)
    /\ ~ VetoedOrigin(g)
    /\ cluster_event[g] > 0
    /\ g \in Members(g)
    /\ \A p \in Members(g) : Time(g) <= Time(p)
    /\ \E p \in Members(g) \ {g} : Time(p) = Time(g)

\* C6: among members tied for the minimal time the lowest id is the
\* earliest: a primary tied only with higher ids is kept, one tied with a
\* lower id is demoted, and the loop always has a step to take on a tie.
C6_TimeTieBreak ==
    \A g \in DeclaredGroups :
        /\ (Resolved /\ TiedCandidate(g)) =>
              IF \E p \in Members(g) : p < g /\ Time(p) = Time(g)
              THEN DemotedGroup(g)
              ELSE KeptGroup(g)
        /\ (InLoop /\ gid = g /\ TiedCandidate(g)) =>
              ENABLED (DemoteTime \/ KeepPrimary)

\* both outcomes of a tie have happened: the group led by 0 is kept and,
\* in another event, the group led by 1 is demoted
C6_Witness ==
    /\ Resolved
    /\ \E g \in DeclaredGroups :
        /\ TiedCandidate(g)
        /\ Members(g) = {0, 1}
        /\ g = 1
        /\ DemotedGroup(g)

C6_WitnessKept ==
    /\ Resolved
    /\ TiedCandidate(0)
    /\ Members(0) = {0, 1}
    /\ KeptGroup(0)

\* the particles whose group id is not the declared one any more
Changed == {p \in Particles : group_ids[p] # Declared(p)}

\* C7: at every moment, every fresh id is strictly greater than the
\* greatest declared group id of the event, and particles of different
\* declared groups never share a fresh id.
C7_DemotionMonotonicity ==
    /\ \A p \in Changed : group_ids[p] > SetMax(DeclaredGroups)
    /\ \A p, q \in Changed :
          Declared(p) # Declared(q) => group_ids[p] # group_ids[q]
    /\ new_group > SetMax(DeclaredGroups)
    /\ \A p \in Changed : group_ids[p] < new_group

\* two declared groups have been demoted
C7_Witness ==
    /\ Resolved
    /\ \E p, q \in Changed : Declared(p) # Declared(q)

\* the declared groups below g that were demoted
DemotedBelow(g) ==
    {h \in DeclaredGroups : h < g /\ ~ KeptGroup(h)}

\* C8: when the loop is over, the k-th demoted group in increasing order
\* of declared id has the id num_clusters + 1 + (k - 1), so that fresh ids
\* increase with the declared id.
C8_FreshIdOrder ==
    Resolved =>
        /\ \A g \in DeclaredGroups : \A p \in Members(g) :
              ~ KeptGroup(g) =>
                 group_ids[p] = num_clusters + 1 + Cardinality(DemotedBelow(g))
        /\ \A p, q \in Changed :
              Declared(p) < Declared(q) => group_ids[p] < group_ids[q]

\* the groups 0, 1 and 2 were all demoted
C8_Witness ==
    /\ Resolved
    /\ DeclaredGroups = {0, 1, 2}
    /\ \A g \in DeclaredGroups : ~ KeptGroup(g)

SameAsFirst ==
    /\ first_call # <<>>
    /\ particles_v = first_call[1].particles_v
    /\ cluster_event = first_call[1].cluster_event

\* C9: a call on the event of the first call ends with the group ids, the
\* outcome and the rows of the first call, whatever was resolved in
\* between; and every call starts its counter at num_clusters + 1.
C9_Reproducible ==
    /\ (pc = "resolve" /\ pos = 1) => new_group = num_clusters + 1
    /\ (Returned /\ SameAsFirst) => group_ids = first_call[1].group_ids
    /\ (Returned /\ SameAsFirst /\ pc \notin {"labelled", "labelled2", "nu_only"}) =>
          /\ pc = first_call[1].pc
          /\ np_features = first_call[1].np_features

\* the third call, on the event of the first call after a call on another
\* event, has returned with a demoted group
C9_Witness ==
    /\ calls = 3
    /\ others = 1
    /\ pc = "done"
    /\ SameAsFirst
    /\ Changed # {}

\* C10: when the loop is over, every particle has one group id, particles
\* of one declared group have one resolved id, and in the extended output
\* rows of one resolved group have one interaction id.
C10_Coverage ==
    /\ DOMAIN group_ids = Particles
    /\ Resolved =>
          \A p, q \in Particles :
              Declared(p) = Declared(q) => group_ids[p] = group_ids[q]
    /\ pc = "labelled" =>
          \A r, t \in 1..Len(np_features) :
              np_features[r][1] = np_features[t][1]
                  => np_features[r][2] = np_features[t][2]

\* the extended output of an event whose two particles are in one demoted
\* group: two rows with one fresh group id and one interaction id
C10_Witness ==
    /\ pc = "labelled"
    /\ Len(np_features) = 2
    /\ Declared(0) = Declared(1)
    /\ Changed = {0, 1}
    /\ np_features[1][1] = group_ids[0]
    /\ np_features[2][1] = group_ids[1]


\* the particles whose own shape is track (1), michel (2) or delta (3)
TrackLike == {p \in Particles : particles_v[p].shape \in {1, 2, 3}}

\* C11 as stated: when the loop is over, every particle whose own shape is
\* track, michel or delta still has its declared group id, whatever the
\* shape of the primary of its group.
C11_OwnShapeNeverDemoted ==
    Resolved => \A p \in TrackLike : group_ids[p] = Declared(p)

\* C11 as amended: when the loop is over, a particle whose own shape is
\* track, michel or delta has its declared group id, unless the primary of
\* its declared group is a shower or low energy and that group was
\* demoted as a whole.
C11_OwnShapeFollowsGroup ==
    Resolved =>
        \A p \in TrackLike :
            \/ group_ids[p] = Declared(p)
            \/ /\ ShowerLike(Declared(p))
               /\ DemotedGroup(Declared(p))

\* a track declared in the group of a shower other than itself, demoted
\* with that group
C11_Witness ==
    /\ Resolved
    /\ \E p \in TrackLike :
        /\ particles_v[p].shape = 1
        /\ ShowerLike(Declared(p))
        /\ Declared(p) # p
        /\ DemotedGroup(Declared(p))
        /\ group_ids[p] = group_ids[Declared(p)]


\* the cluster of each output row: cluster c owns cluster_event[c] rows
RECURSIVE RowOwners(_)
RowOwners(i) ==
    IF i = 0 THEN <<>>
    ELSE RowOwners(i - 1) \o [k \in 1..cluster_event[i - 1] |-> i - 1]

\* some record is not at the position its id names
IdMismatch == \E i \in Particles : particles_v[i].id # i

\* C12 as stated: once parse_cluster3d_full has ended on an event in which
\* some record i has an id other than i, with an empty cluster or not, it
\* has ended with an error and without any row.
C12_DenseIndexCheck ==
    (Returned /\ IdMismatch) =>
        /\ pc \in {"AssertionError", "ValueError"}
        /\ np_features = <<>>

\* what the code does check: a record with a non-empty cluster and an id
\* other than its position ends the call with AssertionError and no row
C12_NonEmptyChecked ==
    (Returned /\ \E i \in Particles :
                    cluster_event[i] > 0 /\ particles_v[i].id # i) =>
        /\ pc = "AssertionError"
        /\ np_features = <<>>

\* C13 as stated: once parse_cluster3d_full has ended on an event without
\* particles or without voxels, it has returned empty arrays and not
\* raised.
C13_EmptyInputNoError ==
    (Returned /\ \A c \in DOMAIN cluster_event : cluster_event[c] = 0) =>
        /\ pc \in {"done", "labelled", "labelled2"}
        /\ np_features = <<>>

\* what the code does on such an event: np.concatenate raises ValueError
C13_EmptyInputRaises ==
    (Returned /\ \A c \in DOMAIN cluster_event : cluster_event[c] = 0) =>
        pc = "ValueError"


\* the clusters that have voxels, i.e. rows in the output
NonEmpty == {c \in DOMAIN cluster_event : cluster_event[c] > 0}

\* C19: in the output of parse_cluster3d_full_extended2, rows being
\* <<group id, interaction id, semantic type, nu flag>>, the flag of a row is
\* 1 exactly when some row of resolved group 0 has its interaction id and 0
\* otherwise; with no voxel in resolved group 0 every flag is 0; and the
\* flagged rows have one interaction id.
C19_NeutrinoFlag ==
    pc = "labelled2" =>
        LET rows == np_features
            R == 1..Len(rows)
            owners == RowOwners(num_clusters)
        IN  /\ \A r \in R : rows[r][4] \in {0, 1}
            /\ \A r \in R :
                  rows[r][4] = 1 <=>
                     \E t \in R : /\ group_ids[owners[t]] = 0
                                  /\ rows[t][2] = rows[r][2]
            /\ (\A c \in NonEmpty : group_ids[c] # 0) =>
                  \A r \in R : rows[r][4] = 0
            /\ \A r, t \in R :
                  (rows[r][4] = 1 /\ rows[t][4] = 1) => rows[r][2] = rows[t][2]

\* an output with a flagged row of group 0 and an unflagged row of another
\* interaction
C19_Witness ==
    /\ pc = "labelled2"
    /\ \E r, t \in 1..Len(np_features) :
        /\ np_features[r][1] = 0
        /\ np_features[r][4] = 1
        /\ np_features[t][4] = 0
        /\ np_features[t][2] # np_features[r][2]

\* group 0 was declared and demoted, and no row is flagged although rows
\* of interaction 0 exist
C19_WitnessDemoted ==
    /\ pc = "labelled2"
    /\ 0 \in DeclaredGroups
    /\ ~ KeptGroup(0)
    /\ Len(np_features) > 0
    /\ \A r \in 1..Len(np_features) : np_features[r][4] = 0

\* C20: in the output of the extended parsers, the group id of a row is
\* the resolved group id of the cluster that owns the row, and two rows
\* with one group id have one interaction id.
C20_InteractionConsistency ==
    pc \in {"labelled", "labelled2"} =>
        LET rows == np_features
            R == 1..Len(rows)
            owners == RowOwners(num_clusters)
        IN  /\ Len(owners) = Len(rows)
            /\ \A r \in R : rows[r][1] = group_ids[owners[r]]
            /\ \A r, t \in R :
                  group_ids[owners[r]] = group_ids[owners[t]]
                      => rows[r][2] = rows[t][2]

\* three rows: two clusters of one demoted group with one interaction id
\* and a cluster of another group with another interaction id
C20_Witness ==
    /\ pc \in {"labelled", "labelled2"}
    /\ Len(np_features) = 3
    /\ \E r, t, u \in 1..3 :
        /\ r # t
        /\ np_features[r][1] = np_features[t][1]
        /\ np_features[r][1] > SetMax(DeclaredGroups)
        /\ np_features[r][2] = np_features[t][2]
        /\ np_features[u][1] # np_features[r][1]
        /\ np_features[u][2] # np_features[r][2]


-----------------------------------------------------------------------------
(***************************************************************************)
(* Properties of the clean parsers.                                        *)
(***************************************************************************)
\* the voxel coordinates of a tensor
Coords(rows) == {rows[k].voxel : k \in DOMAIN rows}

\* parse_cluster3d_clean or parse_cluster3d_clean_full has returned its rows
CleanReturned == cpc \in {"clean", "clean_full"}

\* the rows are strictly increasing in the order of the sort
StrictlySorted(rows) ==
    \A k \in 1..(Len(rows) - 1) : LexLess(rows[k].voxel, rows[k + 1].voxel)

\* the first row of the cluster tensor at voxel v
FirstRowAt(v) ==
    data_clusters[SetMin({k \in DOMAIN data_clusters :
                            data_clusters[k].voxel = v})]

\* the clusters that contain voxel v
ClustersAt(v) ==
    {data_clusters[k].cluster_id :
       k \in {j \in DOMAIN data_clusters : data_clusters[j].voxel = v}}

\* C14: once parse_cluster3d_clean_full has returned, every voxel of the
\* image has a row, and there are as many rows as distinct image voxels.
C14_ImageCovered ==
    cpc = "clean_full" =>
        /\ Coords(data_image) \subseteq Coords(grp_rows)
        /\ Len(grp_rows) = Cardinality(Coords(data_image))

\* What the code gives instead: the rows are the voxels that the clusters
\* and the image share, one row each.
C14_SharedCovered ==
    cpc = "clean_full" =>
        /\ Coords(grp_rows) = Coords(data_clusters) \cap Coords(data_image)
        /\ Len(grp_rows) = Cardinality(Coords(grp_rows))

\* C15: for any cluster and image tensors, step 4 of
\* parse_cluster3d_clean_full ends with rows whose semantic type is a value
\* that the image carries at the voxel of the row.
C15_OverrideAligned ==
    cpc \in {"clean_full", "ValueError"} =>
        /\ cpc = "clean_full"
        /\ \A k \in DOMAIN grp_rows :
             \E j \in DOMAIN data_image :
                /\ data_image[j].voxel = grp_rows[k].voxel
                /\ data_image[j].value = grp_rows[k].sem_type

\* What the code gives: the rows are aligned whenever step 4 returns, and
\* step 4 returns only if the image has one row or as many rows as the
\* cleaned clusters.
C15_AlignedWhenReturned ==
    /\ cpc = "clean_full" =>
         \A k \in DOMAIN grp_rows :
            \E j \in DOMAIN data_image :
               /\ data_image[j].voxel = grp_rows[k].voxel
               /\ data_image[j].value = grp_rows[k].sem_type
    /\ cpc = "ValueError" =>
         /\ Len(data_image) > 1
         /\ \/ Cardinality(Coords(data_image)) < Len(data_image)
            \/ ~ (Coords(data_image) \subseteq Coords(data_clusters))

\* C16: the coordinates that parse_cluster3d_clean and
\* parse_cluster3d_clean_full return are coordinates of the cluster tensor
\* and coordinates of the image tensor: they are exactly the shared
\* coordinates, one row each, in sorted order.
C16_Alignment ==
    CleanReturned =>
        /\ Coords(grp_rows) \subseteq Coords(data_clusters)
        /\ Coords(grp_rows) \subseteq Coords(data_image)
        /\ Coords(data_clusters) \cap Coords(data_image)
             \subseteq Coords(grp_rows)
        /\ StrictlySorted(grp_rows)

\* three cluster coordinates filtered against two image coordinates: the two
\* shared rows are returned by the full variant
C16_Witness ==
    /\ cpc = "clean_full"
    /\ Cardinality(Coords(data_clusters)) = 3
    /\ Cardinality(Coords(data_image)) = 2
    /\ Len(grp_rows) = 2

-----------------------------------------------------------------------------
(***************************************************************************)
(* Properties of the sparse parsers.                                       *)
(***************************************************************************)
\* the lexicographic orders of the coordinates: o[1] is the most
\* significant component
Orders == {o \in [1..3 -> 1..3] : \A i, j \in 1..3 : o[i] = o[j] => i = j}

LessBy(o, a, b) ==
    \E i \in 1..3 : /\ a[o[i]] < b[o[i]]
                    /\ \A j \in 1..(i - 1) : a[o[j]] = b[o[j]]

IncreasingBy(o, rows) ==
    \A k \in 1..(Len(rows) - 1) : LessBy(o, rows[k].voxel, rows[k + 1].voxel)

BothParsed == sparse_out.status = "ok" /\ fragment_out.status = "ok"

\* C17: the rows of parse_sparse3d_clean and the rows of
\* parse_sparse3d_fragment are strictly increasing under one and the same
\* lexicographic order of the coordinates.
C17_CanonicalOrder ==
    BothParsed =>
        \E o \in Orders : /\ IncreasingBy(o, sparse_out.rows)
                          /\ IncreasingBy(o, fragment_out.rows)

\* What the code gives: each parser has its order, parse_sparse3d_fragment
\* that of np.lexsort (z first), parse_sparse3d_clean that of np.unique
\* (x first).
C17_OwnOrders ==
    BothParsed =>
        /\ IncreasingBy(<<1, 2, 3>>, sparse_out.rows)
        /\ IncreasingBy(<<3, 2, 1>>, fragment_out.rows)


-----------------------------------------------------------------------------
(***************************************************************************)
(* Frame of the resolver.                                                  *)
(***************************************************************************)
\* C21: no step of parse_cluster3d_full or of a parser built on it, whether
\* the call returns or fails, changes a particle record: id, parent id,
\* group id, shape, creation process, parent PDG code and first step time
\* stay what they were; the resolved ids are in group_ids and in the rows.
C21_RecordsReadOnly == [][particles_v' = particles_v]_vars

\* a call on which a particle was given a new group id has ended, by a
\* return or by an error, and the record still has the declared id
C21_Witness ==
    /\ pc \in {"done", "AssertionError", "ValueError", "labelled", "labelled2"}
    /\ \E p \in Particles : /\ group_ids[p] # particles_v[p].group_id
                            /\ particles_v[p].parent_id # particles_v[p].id


-----------------------------------------------------------------------------
(***************************************************************************)
(* Properties of parse_particle_graph.                                     *)
(***************************************************************************)
GraphIds == DOMAIN graph_particles

SelfParented(c) == graph_particles[c].parent_id = graph_particles[c].id

EdgeSet == {edges[k] : k \in DOMAIN edges}

\* the children of p in the returned edges
ChildrenOf(p) == {e[2] : e \in {f \in EdgeSet : f[1] = p}}

\* C22: in the returned edges the children of p are exactly the particles
\* whose parent id is p and that are not self-parented, and a self-parented
\* particle is the child of no edge.
C22_ProvenanceEdges ==
    graph_pc = "returned" =>
        /\ \A p \in GraphIds :
              ChildrenOf(p) = {c \in GraphIds : /\ graph_particles[c].parent_id = p
                                                /\ ~ SelfParented(c)}
        /\ \A e \in EdgeSet : ~ SelfParented(e[2])

\* What the code gives: every particle that is not self-parented is the
\* child of its parent, and a self-parented particle declared in the group
\* of another particle is the child of that group id.
C22_ParentOrGroupEdges ==
    graph_pc = "returned" =>
        EdgeSet = {<<graph_particles[c].parent_id, c>> :
                     c \in {d \in GraphIds : ~ SelfParented(d)}}
                  \cup {<<graph_particles[c].group_id, c>> :
                          c \in {d \in GraphIds :
                                   /\ SelfParented(d)
                                   /\ graph_particles[d].group_id # d}}


-----------------------------------------------------------------------------
(***************************************************************************)
(* Properties of parse_cluster3d_full_extended_nu_only.                    *)
(***************************************************************************)
\* positions r of the extended rows ext whose nu flag is positive
FlaggedRows(ext) == SortedSeq({r \in DOMAIN ext : ext[r][4] > 0})

\* C23: the rows parse_cluster3d_full_extended_nu_only returns are the rows
\* of parse_cluster3d_full_extended2 with a positive nu flag, in the same
\* order, each with its own voxel, group id, interaction id and semantic
\* type.
C23_NuOnlyRows ==
    pc = "nu_only" =>
        \E f \in InteractionMaps(ClusterRows(num_clusters)) :
            LET full == ClusterRows(num_clusters)
                voxels == ClusterVoxels(num_clusters)
                ext == NuRows(full, get_interaction_id(full, f))
                kept == FlaggedRows(ext)
            IN  /\ Len(np_features) = Len(kept)
                /\ Len(np_voxels) = Len(kept)
                /\ \A k \in 1..Len(kept) :
                      /\ np_voxels[k] = voxels[kept[k]]
                      /\ np_features[k] = SubSeq(ext[kept[k]], 1, 3)

\* rows of two interactions: the first row is dropped and a later row,
\* of the interaction of group 0, is kept
C23_Witness ==
    /\ pc = "nu_only"
    /\ Len(np_features) > 0
    /\ Len(np_features) < Len(ClusterRows(num_clusters))
    /\ np_voxels[1] # ClusterVoxels(num_clusters)[1]


-----------------------------------------------------------------------------
(***************************************************************************)
(* Properties of the Particle class.                                       *)
(***************************************************************************)
\* C24: after an assignment to index or to depositions, depositions_sum
\* reads as the sum of the depositions array assigned last.
C24_DepositionsSum ==
    assigned \in {"index", "depositions"} =>
        depositions_sum = NpSum(particle._depositions)

\* What the code gives: depositions_sum reads as the number of voxels of
\* the index; the sum is kept in an attribute that no getter returns.
C24_SumIsSize ==
    assigned # "none" =>
        /\ depositions_sum = Len(index)
        /\ particle._depositions_sum = NpSum(depositions)

\* C25: after an assignment to fragment_ids or to index, fragment_ids reads
\* as the fragment id list assigned last and num_fragments is its length.
C25_FragmentIds ==
    assigned \in {"fragment_ids", "index"} =>
        /\ fragment_ids = particle._fragment_ids
        /\ num_fragments = Len(particle._fragment_ids)

\* What the code gives: fragment_ids reads as the voxel index; only
\* num_fragments follows the fragment id list.
C25_FragmentIdsIsIndex ==
    assigned # "none" =>
        /\ fragment_ids = index
        /\ num_fragments = Len(particle._fragment_ids)

\* C26: after an assignment to pid_scores, pid is -1 if the first score is
\* negative and the argmax of the scores otherwise; after an assignment to
\* primary_scores, the same holds of is_primary.
C26_UnknownScores ==
    /\ assigned = "pid_scores" =>
         particle.pid = IF pid_scores[1] < 0 THEN 0 - 1
                        ELSE NpArgMax(pid_scores)
    /\ assigned = "primary_scores" =>
         particle.is_primary = IF primary_scores[1] < 0 THEN 0 - 1
                               ELSE NpArgMax(primary_scores)

\* What the code gives: the label is the argmax of the scores in every
\* case, never -1.
C26_AlwaysArgMax ==
    /\ assigned = "pid_scores" => particle.pid = NpArgMax(pid_scores)
    /\ assigned = "primary_scores" =>
         particle.is_primary = NpArgMax(primary_scores)


-----------------------------------------------------------------------------
(***************************************************************************)
(* Row alignment of parse_sparse3d_clean.                                  *)
(***************************************************************************)
\* tensor t of the input has value v at voxel x
Carries(t, x, v) ==
    \E k \in DOMAIN sparse_data[t] :
        sparse_data[t][k].voxel = x /\ sparse_data[t][k].value = v

\* C27: parse_sparse3d_clean returns without error, and in every row the
\* energy, the group value and the label are values that the energy, group
\* and label tensors carry at the coordinate of the row.
C27_RowAlignment ==
    sparse_out.status # "none" =>
        /\ sparse_out.status = "ok"
        /\ \A k \in DOMAIN sparse_out.rows :
              LET row == sparse_out.rows[k]
              IN  /\ Carries(1, row.voxel, row.energy)
                  /\ Carries(2, row.voxel, row.group)
                  /\ Carries(3, row.voxel, row.label)

\* What the code gives: when it returns, the group value and the label of
\* a row are those of its coordinate.
C27_GroupAndLabelAligned ==
    sparse_out.status = "ok" =>
        \A k \in DOMAIN sparse_out.rows :
            LET row == sparse_out.rows[k]
            IN  /\ Carries(2, row.voxel, row.group)
                /\ Carries(3, row.voxel, row.label)

\* The part of C27 on the energy column of an output that was returned:
\* the energy of a row is a value of the energy tensor at its coordinate.
C27_EnergyAlignedWhenReturned ==
    sparse_out.status = "ok" =>
        \A k \in DOMAIN sparse_out.rows :
            Carries(1, sparse_out.rows[k].voxel, sparse_out.rows[k].energy)


-----------------------------------------------------------------------------
(***************************************************************************)
(* Properties of the Neutrino conversions.                                 *)
(***************************************************************************)
\* the interaction point in cm and in pixels, as fractions
PointInCm == [k \in 1..3 |-> Fraction(nu_point[k], 1)]

PointInPixel == [k \in 1..3 |-> MetaToPixel(nu_meta, PointInCm[k])]

\* units names the unit in which position is expressed
UnitsNamePosition ==
    /\ nu.units \in {"cm", "pixel"}
    /\ nu.units = "cm" => nu.position = PointInCm
    /\ nu.units = "pixel" => nu.position = PointInPixel

\* a call to the current units fails and changes nothing; any other call
\* returns, sets the units to its target and converts the position once
ConversionStep ==
    /\ (nu_status'.call = "to_cm" /\ nu.units = "cm") =>
          nu_status'.outcome = "AssertionError" /\ nu' = nu
    /\ (nu_status'.call = "to_pixel" /\ nu.units = "pixel") =>
          nu_status'.outcome = "AssertionError" /\ nu' = nu
    /\ (nu_status'.call = "to_cm" /\ nu.units # "cm") =>
          /\ nu_status'.outcome = "returned"
          /\ nu'.units = "cm"
          /\ nu'.position = [k \in 1..3 |-> MetaToCm(nu_meta, nu.position[k])]
    /\ (nu_status'.call = "to_pixel" /\ nu.units # "pixel") =>
          /\ nu_status'.outcome = "returned"
          /\ nu'.units = "pixel"
          /\ nu'.position =
               [k \in 1..3 |-> MetaToPixel(nu_meta, nu.position[k])]

\* C28: in any sequence of to_cm and to_pixel calls, a call to the current
\* units fails its assertion and leaves units and position as they were, a
\* call to the other units converts the position once, and units always
\* names the unit in which the position is expressed.
C28_UnitsTrackPosition == [](UnitsNamePosition) /\ [][ConversionStep]_vars

\* to_pixel was called twice in a row: the second call failed, and the
\* position is the point in pixels, which differs from the point in cm
C28_Witness ==
    /\ nu_status = [call |-> "to_pixel", outcome |-> "AssertionError"]
    /\ nu.units = "pixel"
    /\ nu.position = PointInPixel
    /\ PointInPixel # PointInCm


-----------------------------------------------------------------------------
(***************************************************************************)
(* Groups as wholes.                                                       *)
(***************************************************************************)
\* C29: at every point of the resolution two particles have the same
\* group id if and only if they were declared in the same group, and the
\* members the loop finds for the group it examines are the declared
\* members of that group, whatever was demoted before.
C29_WholeGroups ==
    /\ \A p, q \in Particles :
          (group_ids[p] = group_ids[q]) <=> (Declared(p) = Declared(q))
    /\ InLoop => SeqRange(Where(group_ids, gid)) = Members(gid)

\* the loop is over and two groups were demoted, one of them with two
\* members: three particles, two fresh ids
C29_Witness ==
    /\ Resolved
    /\ \E p, q, r \in Particles :
          /\ p # q
          /\ group_ids[p] = group_ids[q]
          /\ group_ids[p] > SetMax(DeclaredGroups)
          /\ group_ids[r] > SetMax(DeclaredGroups)
          /\ group_ids[r] # group_ids[p]


-----------------------------------------------------------------------------
(***************************************************************************)
(* A nominal primary that is declared in another group.                    *)
(***************************************************************************)
\* C30: once the loop is over, a declared group g whose particle g is a
\* shower or low energy and is itself declared in another group has been
\* demoted to a fresh id, whatever its origin and its cluster.
C30_PrimaryOutsideGroup ==
    Resolved =>
        \A g \in DeclaredGroups :
            (ShowerLike(g) /\ Declared(g) # g) => DemotedGroup(g)

\* such a group, with a clean origin and a non-empty cluster g, and with
\* particle g no later than any member, has been demoted
C30_Witness ==
    /\ Resolved
    /\ \E g \in DeclaredGroups :
          /\ ShowerLike(g)
          /\ Declared(g) # g
          /\ ~ VetoedOrigin(g)
          /\ cluster_event[g] > 0
          /\ \A p \in Members(g) : Time(g) <= Time(p)
          /\ DemotedGroup(g)

=============================================================================
